---- MODULE Spec2Model ----
(***************************************************************************)
(* The POST /api/calculate handler of src/src/app.py (function calculate)  *)
(* as a state machine.  Each worker of the HTTP framework runs one         *)
(* invocation of the handler at a time; an invocation owns its locals      *)
(* (data, numbers, operation, result) and ends with a response.            *)
(*                                                                         *)
(* Python values are modelled by tagged records:                           *)
(*   None, bool, int, float, str, list, dict.                              *)
(* A Python str is the tuple of its characters, so that the substring test *)
(* of `in` on a str is computed.  A Python int is unbounded: it is written *)
(* in positional notation with base Huge = 10^400, least significant digit *)
(* first, the digits being small (possibly negative) integers.  A Python   *)
(* float is denoted by the reduced fraction <<n, d>> whose nearest double  *)
(* it is; the float inputs are small dyadic fractions, which doubles hold  *)
(* exactly.                                                                *)
(***************************************************************************)
EXTENDS Integers, Sequences, FiniteSets, TLC

\* ------------------------------------------------------------------ bounds
\* Longest 'numbers' list a request carries.
MaxLen == 2

\* The framework's workers: Spec and FaultSpec run worker 1 alone, ConcSpec
\* runs both.
Threads == {1, 2}

\* Number of base-Huge digits kept for an int: a product of MaxLen elements,
\* each at most Huge, is at most Huge^MaxLen, whose digit is the last kept.
NumDigits == MaxLen + 1

\* ------------------------------------------------------------ Python values
None == [k |-> "None"]
\* A local variable that has not been assigned in this invocation.
Unset == [k |-> "unset"]

PyBool(b) == [k |-> "bool", v |-> b]
PyInt(digits) == [k |-> "int", v |-> digits]
PyFloat(n, d) == [k |-> "float", v |-> <<n, d>>]
PyStr(chars) == [k |-> "str", v |-> chars]
PyList(elems) == [k |-> "list", v |-> elems]
PyDict(items) == [k |-> "dict", v |-> items]

\* The int with value i, |i| small.
Small(i) == PyInt([j \in 1..NumDigits |-> IF j = 1 THEN i ELSE 0])
\* The int 10^400.
Huge == PyInt([j \in 1..NumDigits |-> IF j = 2 THEN 1 ELSE 0])

\* String literals of the handler.
StrNumbers == <<"n", "u", "m", "b", "e", "r", "s">>
StrOperation == <<"o", "p", "e", "r", "a", "t", "i", "o", "n">>
StrSum == <<"s", "u", "m">>
StrProduct == <<"p", "r", "o", "d", "u", "c", "t">>
StrAverage == <<"a", "v", "e", "r", "a", "g", "e">>

\* ----------------------------------------------------------- Python numbers
RECURSIVE Gcd(_, _)
Gcd(a, b) == IF b = 0 THEN a ELSE Gcd(b, a % b)

Abs(i) == IF i < 0 THEN -i ELSE i

\* The float nearest to n/d (d > 0), as a reduced fraction.
Fraction(n, d) ==
    LET g == Gcd(Abs(n), d) IN PyFloat(n \div g, d \div g)

\* An int of magnitude at least Huge - 1: it exceeds the largest double.
TooLargeForFloat(digits) == \E j \in 2..NumDigits : digits[j] # 0

\* The exception object raised by an operation, in place of its value.
Raised(name) == [k |-> "raise", v |-> name]
IsRaised(x) == x.k = "raise"

\* The types the arithmetic operators accept: int, its subclass bool, float.
\* Any other operand of + or * next to a number raises TypeError.
IsNumber(x) == x.k \in {"int", "float", "bool"}

\* bool is a subclass of int: True is 1 and False is 0 in arithmetic.
AsInt(x) == IF x.k = "bool" THEN (IF x.v THEN Small(1) ELSE Small(0)) ELSE x

\* float(x) for an int or a float x; OverflowError for an int too large.
AsFloat(x) ==
    IF x.k = "float" THEN x
    ELSE IF TooLargeForFloat(x.v) THEN Raised("OverflowError")
    ELSE Fraction(x.v[1], 1)

IntAdd(a, b) == PyInt([j \in 1..NumDigits |-> a.v[j] + b.v[j]])

RECURSIVE Convolve(_, _, _, _)
Convolve(a, b, j, i) ==
    IF i > j THEN 0
    ELSE a[i] * b[j - i + 1] + Convolve(a, b, j, i + 1)

IntMul(a, b) == PyInt([j \in 1..NumDigits |-> Convolve(a.v, b.v, j, 1)])

FloatAdd(a, b) == Fraction(a.v[1] * b.v[2] + b.v[1] * a.v[2], a.v[2] * b.v[2])
FloatMul(a, b) == Fraction(a.v[1] * b.v[1], a.v[2] * b.v[2])
FloatDiv(a, b) ==
    IF b.v[1] < 0 THEN Fraction(-(a.v[1] * b.v[2]), a.v[2] * (-b.v[1]))
    ELSE Fraction(a.v[1] * b.v[2], a.v[2] * b.v[1])

\* x + y of two numbers (int, bool or float), or the exception it raises.
PyAdd(x, y) ==
    LET a == AsInt(x)
        b == AsInt(y)
    IN  IF ~IsNumber(x) \/ ~IsNumber(y) THEN Raised("TypeError")
        ELSE IF a.k = "int" /\ b.k = "int" THEN IntAdd(a, b)
        ELSE IF IsRaised(AsFloat(a)) THEN AsFloat(a)
        ELSE IF IsRaised(AsFloat(b)) THEN AsFloat(b)
        ELSE FloatAdd(AsFloat(a), AsFloat(b))

\* x * y of two numbers, or the exception it raises.
PyMul(x, y) ==
    LET a == AsInt(x)
        b == AsInt(y)
    IN  IF ~IsNumber(x) \/ ~IsNumber(y) THEN Raised("TypeError")
        ELSE IF a.k = "int" /\ b.k = "int" THEN IntMul(a, b)
        ELSE IF IsRaised(AsFloat(a)) THEN AsFloat(a)
        ELSE IF IsRaised(AsFloat(b)) THEN AsFloat(b)
        ELSE FloatMul(AsFloat(a), AsFloat(b))

\* x / n of a number by a small int n: always a float.  The quotient of an
\* int of magnitude about Huge by a small n is itself beyond the largest
\* double, so the division raises OverflowError exactly when float(x) would.
PyTrueDiv(x, n) ==
    LET a == AsInt(x)
    IN  IF ~IsNumber(x) THEN Raised("TypeError")
        ELSE IF n = 0 THEN Raised("ZeroDivisionError")
        ELSE IF IsRaised(AsFloat(a)) THEN AsFloat(a)
        ELSE FloatDiv(AsFloat(a), Fraction(n, 1))

\* sum(numbers): 0 + numbers[0] + numbers[1] + ..., left to right.
RECURSIVE SumFrom(_, _, _)
SumFrom(acc, elems, i) ==
    IF IsRaised(acc) \/ i > Len(elems) THEN acc
    ELSE SumFrom(PyAdd(acc, elems[i]), elems, i + 1)

PySum(elems) == SumFrom(Small(0), elems, 1)

\* result = 1; for num in numbers: result *= num.
RECURSIVE ProductFrom(_, _, _)
ProductFrom(acc, elems, i) ==
    IF IsRaised(acc) \/ i > Len(elems) THEN acc
    ELSE ProductFrom(PyMul(acc, elems[i]), elems, i + 1)

PyProduct(elems) == ProductFrom(Small(1), elems, 1)

\* sum(numbers) / len(numbers).
PyAverage(elems) ==
    IF IsRaised(PySum(elems)) THEN PySum(elems)
    ELSE PyTrueDiv(PySum(elems), Len(elems))

\* ------------------------------------------------- truth value, membership
\* bool(x): None, False, zero, and the empty str, list and dict are false.
Truthy(x) ==
    CASE x.k = "None" -> FALSE
      [] x.k = "bool" -> x.v
      [] x.k = "int" -> \E j \in 1..NumDigits : x.v[j] # 0
      [] x.k = "float" -> x.v[1] # 0
      [] x.k = "str" -> Len(x.v) > 0
      [] x.k = "list" -> Len(x.v) > 0
      [] x.k = "dict" -> x.v # {}

\* sub occurs in chars as a contiguous run.
IsSubstring(sub, chars) ==
    \E i \in 1..(Len(chars) - Len(sub) + 1) :
        SubSeq(chars, i, i + Len(sub) - 1) = sub

Keys(d) == {item[1] : item \in d.v}

\* `key in x` is defined for a str, a list and a dict; for any other value
\* (a number, a bool) it raises TypeError: argument is not iterable.
SupportsIn(x) == x.k \in {"str", "list", "dict"}

\* key in x, for a str key: substring of a str, element of a list, key of a
\* dict.
PyIn(key, x) ==
    CASE x.k = "str" -> IsSubstring(key, x.v)
      [] x.k = "list" ->
            \E i \in 1..Len(x.v) : x.v[i].k = "str" /\ x.v[i].v = key
      [] x.k = "dict" -> key \in Keys(x)

\* x[key], for a str key: the value of a dict; TypeError for a str or a list,
\* whose indices must be integers.
PyGetItem(x, key) ==
    IF x.k = "dict"
    THEN (CHOOSE item \in x.v : item[1] = key)[2]
    ELSE Raised("TypeError")

\* x.get(key, default) of a dict x.
PyGet(x, key, default) ==
    IF key \in Keys(x) THEN PyGetItem(x, key) ELSE default

\* isinstance(x, list)
IsList(x) == x.k = "list"

\* isinstance(x, (int, float)): bool is a subclass of int.
IsIntOrFloat(x) == x.k \in {"int", "float", "bool"}

\* ---------------------------------------------------------------- requests
\* Elements a 'numbers' list may hold: ints, 10^400, floats, bools, and the
\* non-numeric str, None, list and dict.
IntElems == {Small(-1), Small(0), Small(2), Small(3), Huge}
FloatElems == {PyFloat(3, 2), PyFloat(2, 1)}
OtherElems ==
    {PyBool(TRUE), PyBool(FALSE), PyStr(<<"x">>), None,
     PyList(<<Small(1)>>), PyDict({})}
Elems == IntElems \cup FloatElems \cup OtherElems

Lists == {PyList(l) : l \in UNION {[1..n -> Elems] : n \in 0..MaxLen}}

\* Values of the 'numbers' field: lists, and values that are no list.
NumbersValues ==
    Lists \cup {None, Small(1), PyFloat(3, 2), PyStr(<<"x">>), PyBool(TRUE),
                PyDict({})}

\* Values of the 'operation' field.
OperationValues ==
    {PyStr(StrSum), PyStr(StrProduct), PyStr(StrAverage),
     PyStr(<<"S", "u", "m">>), PyStr(<<"m", "a", "x">>), None, Small(1)}

StrOther == <<"i", "d">>

\* The 'operation' item of an object, or none.
OperationItems == {{}} \cup {{<<StrOperation, v>>} : v \in OperationValues}

\* JSON objects: with a 'numbers' item, with another item, or empty, each with
\* or without an 'operation' item.
Objects ==
    {PyDict({<<StrNumbers, v>>} \cup o) :
        v \in NumbersValues, o \in OperationItems}
    \cup {PyDict(x \cup o) :
        x \in {{}, {<<StrOther, Small(1)>>}}, o \in OperationItems}

\* JSON values that are no object.
NonObjects ==
    {None, PyBool(FALSE), PyBool(TRUE), Small(0), Small(1), PyFloat(0, 1),
     PyFloat(3, 2), PyStr(<<>>), PyStr(<<"x">>), PyStr(StrNumbers),
     PyStr(<<"x">> \o StrNumbers), PyList(<<>>), PyList(<<Small(1)>>),
     PyList(<<PyStr(StrNumbers)>>)}

\* The decoded payloads of the requests (None: the JSON null, or no payload).
Bodies == NonObjects \cup Objects

\* The bodies two concurrent workers draw from: one of each outcome.
ConcLists ==
    {PyList(<<>>), PyList(<<Small(2), Small(3)>>), PyList(<<Huge>>),
     PyList(<<PyFloat(3, 2), Small(2)>>), PyList(<<PyBool(TRUE)>>),
     PyList(<<Small(2), PyStr(<<"x">>)>>)}
ConcBodies ==
    {None, Small(1), PyStr(StrNumbers), PyDict({}),
     PyDict({<<StrNumbers, Small(1)>>})}
    \cup {PyDict({<<StrNumbers, l>>} \cup o) :
            l \in ConcLists,
            o \in {{}, {<<StrOperation, PyStr(StrProduct)>>},
                   {<<StrOperation, PyStr(StrAverage)>>},
                   {<<StrOperation, PyStr(<<"m", "a", "x">>)>>}}}

\* ------------------------------------------------------------------- state
VARIABLES
    pc,         \* pc[t]: where worker t stands in calculate()
    request,    \* request[t]: the body of the request worker t handles
    data,       \* the handler's locals, per worker
    numbers,
    operation,
    result,
    logged,     \* logged[t]: the record the invocation has logged
    response    \* response[t]: the (payload, status) the invocation returned

vars == <<pc, request, data, numbers, operation, result, logged,
          response>>

\* jsonify(payload), status
Response(status, payload) == [status |-> status, json |-> payload]
ErrorResponse(status, message) == Response(status, [error |-> message])

Init ==
    /\ pc = [t \in Threads |-> "idle"]
    /\ request = [t \in Threads |-> Unset]
    /\ data = [t \in Threads |-> Unset]
    /\ numbers = [t \in Threads |-> Unset]
    /\ operation = [t \in Threads |-> Unset]
    /\ result = [t \in Threads |-> Unset]
    /\ logged = [t \in Threads |-> "nothing"]
    /\ response = [t \in Threads |-> Unset]

\* return jsonify(payload), status
Return(t, resp) ==
    /\ response' = [response EXCEPT ![t] = resp]
    /\ pc' = [pc EXCEPT ![t] = "done"]

\* except Exception as e: log the error, return the generic 500.
Except(t) ==
    /\ logged' = [logged EXCEPT ![t] = "error"]
    /\ Return(t, ErrorResponse(500, "Internal server error"))

\* The framework dispatches a POST /api/calculate whose decoded payload is one
\* of `bodies` to worker t: a fresh invocation of calculate().
Receive(t, bodies) ==
    /\ pc[t] = "idle"
    /\ \E b \in bodies : request' = [request EXCEPT ![t] = b]
    /\ pc' = [pc EXCEPT ![t] = "get_json"]
    /\ UNCHANGED <<data, numbers, operation, result, logged, response>>

\* The framework has sent the response: the invocation and its locals are
\* gone, and the worker is free for the next request.
Finish(t) ==
    /\ pc[t] = "done"
    /\ pc' = [pc EXCEPT ![t] = "idle"]
    /\ request' = [request EXCEPT ![t] = Unset]
    /\ data' = [data EXCEPT ![t] = Unset]
    /\ numbers' = [numbers EXCEPT ![t] = Unset]
    /\ operation' = [operation EXCEPT ![t] = Unset]
    /\ result' = [result EXCEPT ![t] = Unset]
    /\ logged' = [logged EXCEPT ![t] = "nothing"]
    /\ response' = [response EXCEPT ![t] = Unset]

\* data = request.get_json(): the payload as the framework decoded it.
GetJson(t) ==
    /\ pc[t] = "get_json"
    /\ data' = [data EXCEPT ![t] = request[t]]
    /\ pc' = [pc EXCEPT ![t] = "check_data"]
    /\ UNCHANGED <<request, numbers, operation, result, logged, response>>

\* Mutant: the default is another operation of the chain.
DefaultIsProduct == PyStr(StrProduct)

\* Mutant: the operation is kept in a variable the workers share, so the
\* default is whatever the other worker's request resolved last.
DefaultIsShared ==
    IF operation[2].k # "unset" THEN operation[2] ELSE PyStr(StrSum)

\* The default of data.get('operation', 'sum').
DefaultOperation == PyStr(StrSum)

\* if not data or 'numbers' not in data: return 400
\* numbers = data['numbers']; operation = data.get('operation', 'sum')
CheckData(t) ==
    /\ pc[t] = "check_data"
    /\ IF ~Truthy(data[t])
       THEN /\ Return(t, ErrorResponse(400, "Missing numbers array"))
            /\ UNCHANGED <<numbers, operation, logged>>
       ELSE IF ~SupportsIn(data[t])
       THEN /\ Except(t)
            /\ UNCHANGED <<numbers, operation>>
       ELSE IF ~PyIn(StrNumbers, data[t])
       THEN /\ Return(t, ErrorResponse(400, "Missing numbers array"))
            /\ UNCHANGED <<numbers, operation, logged>>
       ELSE IF IsRaised(PyGetItem(data[t], StrNumbers))
       THEN /\ Except(t)
            /\ UNCHANGED <<numbers, operation>>
       ELSE /\ numbers' = [numbers EXCEPT ![t] =
                              PyGetItem(data[t], StrNumbers)]
            /\ operation' = [operation EXCEPT ![t] =
                              PyGet(data[t], StrOperation, DefaultOperation)]
            /\ pc' = [pc EXCEPT ![t] = "check_list"]
            /\ UNCHANGED <<logged, response>>
    /\ UNCHANGED <<request, data, result>>

\* Mutant: the emptiness test is dropped.
NotList(x) == ~IsList(x)

\* not isinstance(numbers, list) or not numbers
NotNonEmptyList(x) == ~IsList(x) \/ ~Truthy(x)

\* if not isinstance(numbers, list) or not numbers: return 400
CheckList(t) ==
    /\ pc[t] = "check_list"
    /\ IF NotNonEmptyList(numbers[t])
       THEN Return(t, ErrorResponse(400, "Numbers must be a non-empty array"))
       ELSE /\ pc' = [pc EXCEPT ![t] = "check_elems"]
            /\ UNCHANGED response
    /\ UNCHANGED <<request, data, numbers, operation, result, logged>>

\* Mutant: only the first element is inspected.
FirstIsNonNumber(elems) == ~IsIntOrFloat(elems[1])

\* The loop finds an element with not isinstance(num, (int, float)).
HasNonNumber(elems) == \E i \in 1..Len(elems) : ~IsIntOrFloat(elems[i])

\* for num in numbers: if not isinstance(num, (int, float)): return 400
CheckElems(t) ==
    /\ pc[t] = "check_elems"
    /\ IF HasNonNumber(numbers[t].v)
       THEN Return(t, ErrorResponse(400, "All elements must be numbers"))
       ELSE /\ pc' = [pc EXCEPT ![t] = "compute"]
            /\ UNCHANGED response
    /\ UNCHANGED <<request, data, numbers, operation, result, logged>>

\* Mutant: the first branch also takes every operation the chain does not
\* name, as a chain ending in a bare else would.
IsSumOrUnknown(op) == op \notin {PyStr(StrProduct), PyStr(StrAverage)}

\* The branches of the if/elif chain on operation.
IsSum(op) == op = PyStr(StrSum)
IsProduct(op) == op = PyStr(StrProduct)
IsAverage(op) == op = PyStr(StrAverage)

\* The value the chain stores in result['result'], or the exception raised.
Reduce(op, elems) ==
    IF IsSum(op) THEN PySum(elems)
    ELSE IF IsProduct(op) THEN PyProduct(elems)
    ELSE PyAverage(elems)

\* result = {'numbers': numbers, 'operation': operation}, then the chain:
\* result['result'] = ..., or return 400 for any other operation.
Compute(t) ==
    /\ pc[t] = "compute"
    /\ IF ~(IsSum(operation[t]) \/ IsProduct(operation[t])
                \/ IsAverage(operation[t]))
       THEN /\ result' = [result EXCEPT ![t] =
                    [numbers |-> numbers[t], operation |-> operation[t],
                     result |-> Unset]]
            /\ Return(t, ErrorResponse(400,
                    "Unsupported operation. Use: sum, product, average"))
            /\ UNCHANGED logged
       ELSE /\ result' = [result EXCEPT ![t] =
                    [numbers |-> numbers[t], operation |-> operation[t],
                     result |-> Reduce(operation[t], numbers[t].v)]]
            /\ IF IsRaised(Reduce(operation[t], numbers[t].v))
               THEN Except(t)
               ELSE /\ pc' = [pc EXCEPT ![t] = "log"]
                    /\ UNCHANGED <<logged, response>>
    /\ UNCHANGED <<request, data, numbers, operation>>

\* logger.info(f"Calculated ..."); return jsonify(result)
Log(t) ==
    /\ pc[t] = "log"
    /\ logged' = [logged EXCEPT ![t] = "info"]
    /\ Return(t, Response(200, result[t]))
    /\ UNCHANGED <<request, data, numbers, operation, result>>

\* The log statement raises (the message cannot be built, or a filter or a
\* handler of the logger raises): control passes to the except clause.
LogRaises(t) ==
    /\ pc[t] = "log"
    /\ Except(t)
    /\ UNCHANGED <<request, data, numbers, operation, result>>

\* One worker serving requests one after the other.
Next ==
    \/ Receive(1, Bodies)
    \/ GetJson(1)
    \/ CheckData(1)
    \/ CheckList(1)
    \/ CheckElems(1)
    \/ Compute(1)
    \/ Log(1)
    \/ Finish(1)

Spec == Init /\ [][Next]_vars

\* The same worker with a log statement that may raise.
FaultNext ==
    \/ Receive(1, Bodies)
    \/ GetJson(1)
    \/ CheckData(1)
    \/ CheckList(1)
    \/ CheckElems(1)
    \/ Compute(1)
    \/ Log(1)
    \/ LogRaises(1)
    \/ Finish(1)

FaultSpec == Init /\ [][FaultNext]_vars

\* Two workers whose invocations interleave statement by statement.
ConcNext ==
    \E t \in Threads :
        \/ Receive(t, ConcBodies)
        \/ GetJson(t)
        \/ CheckData(t)
        \/ CheckList(t)
        \/ CheckElems(t)
        \/ Compute(t)
        \/ Log(t)
        \/ Finish(t)

ConcSpec == Init /\ [][ConcNext]_vars

\* ================================================================== claims
\* What the claims say of a request body b, in the terms of the JSON it
\* carries.
Done(t) == pc[t] = "done"
HasField(b, key) == b.k = "dict" /\ \E item \in b.v : item[1] = key
Field(b, key) == (CHOOSE item \in b.v : item[1] = key)[2]
IsNonEmptyList(x) == x.k = "list" /\ Len(x.v) > 0
\* A JSON number: an integer or a floating-point value, not a boolean.
IsJsonNumber(x) == x.k \in {"int", "float"}
SupportedOperations == {PyStr(StrSum), PyStr(StrProduct), PyStr(StrAverage)}
HasNumbersList(b) ==
    HasField(b, StrNumbers) /\ IsNonEmptyList(Field(b, StrNumbers))
NumbersOf(b) == Field(b, StrNumbers).v

MissingNumbers == ErrorResponse(400, "Missing numbers array")
NotAnArray == ErrorResponse(400, "Numbers must be a non-empty array")
NotNumbers == ErrorResponse(400, "All elements must be numbers")
Unsupported ==
    ErrorResponse(400, "Unsupported operation. Use: sum, product, average")

\* The checks of the validation sequence that b fails.
Fails1(b) == ~HasField(b, StrNumbers)
Fails2(b) == HasField(b, StrNumbers) /\ ~IsNonEmptyList(Field(b, StrNumbers))
Fails3(b) ==
    HasNumbersList(b)
    /\ \E i \in 1..Len(NumbersOf(b)) : ~IsJsonNumber(NumbersOf(b)[i])
Fails4(b) ==
    HasField(b, StrOperation)
    /\ Field(b, StrOperation) \notin SupportedOperations
FailCount(b) ==
    Cardinality({i \in 1..4 :
        \/ i = 1 /\ Fails1(b)
        \/ i = 2 /\ Fails2(b)
        \/ i = 3 /\ Fails3(b)
        \/ i = 4 /\ Fails4(b)})
FirstError(b) ==
    IF Fails1(b) THEN MissingNumbers
    ELSE IF Fails2(b) THEN NotAnArray
    ELSE IF Fails3(b) THEN NotNumbers
    ELSE Unsupported

\* A reduction has run in worker t's invocation.
Computed(t) ==
    "result" \in DOMAIN result[t] /\ result[t].result.k # "unset"

\* The exact value of a list of numbers, for comparison with a result: the
\* part below Huge as an unreduced fraction, and the digits above it.
LowValue(x) ==
    IF x.k = "float" THEN x.v
    ELSE IF x.k = "bool" THEN <<IF x.v THEN 1 ELSE 0, 1>>
    ELSE <<x.v[1], 1>>
HighDigit(x, j) == IF x.k = "int" THEN x.v[j] ELSE 0

RECURSIVE LowTotal(_)
LowTotal(elems) ==
    IF elems = <<>> THEN <<0, 1>>
    ELSE LET h == LowValue(Head(elems))
             r == LowTotal(Tail(elems))
         IN  <<h[1] * r[2] + r[1] * h[2], h[2] * r[2]>>

RECURSIVE HighTotal(_, _)
HighTotal(elems, j) ==
    IF elems = <<>> THEN 0
    ELSE HighDigit(Head(elems), j) + HighTotal(Tail(elems), j)

\* x is the arithmetic sum of elems.
IsSumOf(x, elems) ==
    /\ IsNumber(x)
    /\ LowValue(x)[1] * LowTotal(elems)[2] = LowTotal(elems)[1] * LowValue(x)[2]
    /\ \A j \in 2..NumDigits : HighDigit(x, j) = HighTotal(elems, j)

\* The product of a list of ints, folded from the right.
RECURSIVE IntProduct(_)
IntProduct(elems) ==
    IF elems = <<>> THEN Small(1)
    ELSE IntMul(Head(elems), IntProduct(Tail(elems)))

\* x is the arithmetic sum of elems divided by their count.
IsAverageOf(x, elems) ==
    /\ x.k = "float"
    /\ \A j \in 2..NumDigits : HighTotal(elems, j) = 0
    /\ x.v[1] * LowTotal(elems)[2] * Len(elems) = LowTotal(elems)[1] * x.v[2]

\* C1: the response to a request that fails more than one validation check
\* is the 400 error of the earliest check it fails, and no reduction has run
\* for it.
C1_EarliestCheckDecides ==
    \A t \in Threads :
        Done(t) /\ FailCount(request[t]) > 1
            => response[t] = FirstError(request[t]) /\ ~Computed(t)

\* C2: a body that is no JSON object with a 'numbers' field is answered
\* 400 'Missing numbers array'.
C2_MissingNumbers ==
    \A t \in Threads :
        Done(t) /\ ~HasField(request[t], StrNumbers)
            => response[t] = MissingNumbers

\* C3: a 'numbers' field that is an empty list or no list is answered
\* 400 'Numbers must be a non-empty array', whatever the operation.
C3_NotANonEmptyArray ==
    \A t \in Threads :
        Done(t) /\ HasField(request[t], StrNumbers)
                /\ ~IsNonEmptyList(Field(request[t], StrNumbers))
            => response[t] = NotAnArray

C3_Witness ==
    \E t \in Threads :
        /\ Done(t)
        /\ request[t] = PyDict({<<StrNumbers, PyList(<<>>)>>,
                                <<StrOperation, PyStr(<<"m", "a", "x">>)>>})
        /\ response[t] = NotAnArray

\* C4: a non-empty list with a str, null, list or object element at any
\* position is answered 400 'All elements must be numbers', whatever the
\* other elements and the operation, and no result is computed.
C4_NonNumericElement ==
    \A t \in Threads :
        Done(t) /\ HasNumbersList(request[t])
                /\ (\E i \in 1..Len(NumbersOf(request[t])) :
                        NumbersOf(request[t])[i].k
                            \in {"str", "None", "list", "dict"})
            => response[t] = NotNumbers /\ ~Computed(t)

C4_Witness ==
    \E t \in Threads :
        /\ Done(t)
        /\ request[t] = PyDict({<<StrNumbers,
                                  PyList(<<Small(2), PyStr(<<"x">>)>>)>>,
                                <<StrOperation, PyStr(StrProduct)>>})
        /\ response[t] = NotNumbers

\* C5: a non-empty list of numbers with an 'operation' field whose value is
\* none of sum, product, average is answered 400 'Unsupported operation.
\* Use: sum, product, average'.
C5_UnsupportedOperation ==
    \A t \in Threads :
        Done(t) /\ HasNumbersList(request[t])
                /\ (\A i \in 1..Len(NumbersOf(request[t])) :
                        IsJsonNumber(NumbersOf(request[t])[i]))
                /\ HasField(request[t], StrOperation)
                /\ Field(request[t], StrOperation) \notin SupportedOperations
            => response[t] = Unsupported

C5_Witness ==
    \E t \in Threads :
        /\ Done(t)
        /\ request[t] = PyDict({<<StrNumbers,
                                  PyList(<<Small(2), PyFloat(3, 2)>>)>>,
                                <<StrOperation, PyStr(<<"S", "u", "m">>)>>})
        /\ response[t] = Unsupported

\* C6: a non-empty list of integers is answered 200 with result the sum of
\* the elements for 'sum', their product for 'product', and the sum divided
\* by the count for 'average'.
C6_IntegerReductions ==
    \A t \in Threads :
        Done(t) /\ HasNumbersList(request[t])
                /\ (\A i \in 1..Len(NumbersOf(request[t])) :
                        NumbersOf(request[t])[i].k = "int")
                /\ HasField(request[t], StrOperation)
                /\ Field(request[t], StrOperation) \in SupportedOperations
            => /\ response[t].status = 200
               /\ LET op == Field(request[t], StrOperation)
                      elems == NumbersOf(request[t])
                      r == response[t].json.result
                  IN  IF op = PyStr(StrSum) THEN IsSumOf(r, elems)
                      ELSE IF op = PyStr(StrProduct) THEN r = IntProduct(elems)
                      ELSE IsAverageOf(r, elems)

\* C7: a 200 response carries the request's numbers, the resolved operation
\* and a result; without an 'operation' field the operation is 'sum' and the
\* result is the sum of the numbers.
C7_SuccessPayload ==
    \A t \in Threads :
        Done(t) /\ response[t].status = 200
            => /\ HasNumbersList(request[t])
               /\ response[t].json.numbers = Field(request[t], StrNumbers)
               /\ response[t].json.operation =
                      (IF HasField(request[t], StrOperation)
                       THEN Field(request[t], StrOperation)
                       ELSE PyStr(StrSum))
               /\ IsNumber(response[t].json.result)
               /\ ~HasField(request[t], StrOperation)
                      => IsSumOf(response[t].json.result, NumbersOf(request[t]))

C7_Witness ==
    \E t \in Threads :
        /\ Done(t)
        /\ request[t] = PyDict({<<StrNumbers,
                                  PyList(<<Small(2), Small(3)>>)>>})
        /\ response[t] =
              Response(200, [numbers |-> PyList(<<Small(2), Small(3)>>),
                             operation |-> PyStr(StrSum),
                             result |-> Small(5)])

\* C8: once the validations have passed and the reduction has produced a
\* value, the response is the 200 payload, whether or not the log statement
\* raises.
C8_LogFailureIndependent ==
    \A t \in Threads :
        Done(t) /\ Computed(t) /\ ~IsRaised(result[t].result)
            => response[t] = Response(200, result[t])

\* C9: two requests with the same body get the same response, whatever the
\* workers have handled before and whatever the other worker is doing.
C9_SameBodySameResponse ==
    \A t1, t2 \in Threads :
        Done(t1) /\ Done(t2) /\ request[t1] = request[t2]
            => response[t1] = response[t2]

C9_Witness ==
    /\ Done(1) /\ Done(2)
    /\ request[1] = PyDict({<<StrNumbers, PyList(<<Small(2), Small(3)>>)>>})
    /\ request[2] = request[1]
    /\ response[1].status = 200
    /\ response[2] = response[1]

\* C10: a non-empty list with a boolean element is answered 400 'All
\* elements must be numbers'.
C10_BooleansRejected ==
    \A t \in Threads :
        Done(t) /\ HasNumbersList(request[t])
                /\ (\E i \in 1..Len(NumbersOf(request[t])) :
                        NumbersOf(request[t])[i].k = "bool")
            => response[t] = NotNumbers

====
